---- MODULE Spec2Model ----
(***************************************************************************)
(* Model of the Mood-Detector decision engine                              *)
(* (src/mood_detector/mood_classifier.py).                                 *)
(*                                                                         *)
(* Number representation (the code works on Python floats):                *)
(*   energy, tempo_confidence, zero_crossing_rate, brightness              *)
(*       are held in thousandths       (0.8  is 800);                      *)
(*   tempo is held in hundredths of a BPM (145.01 is 14501);               *)
(*   spectral_centroid is held in Hz, in multiples of 5 Hz, so that        *)
(*       spectral_centroid / 5000.0 is an exact number of thousandths;     *)
(*   chroma is a sequence of 12 naturals.                                  *)
(* Every threshold literal of the code is an exact multiple of these       *)
(* units, and tempo * 2.0 is exact in binary floating point.               *)
(***************************************************************************)
EXTENDS Integers, Sequences, FiniteSets, TLC

VARIABLES
    features,       \* the feature dictionary given to classify_mood
    mood_result,    \* the MoodResult it returned
    pc,             \* "ready" / "front_end" before the call, "done" after
    request,        \* the call a front end makes into the analyzer
    returned,       \* what that call returned
    raised,         \* the exception that left that call, if any
    stdout,         \* the lines batch_analyze printed
    extract_calls,  \* the paths extract_features was called with
    classify_calls, \* the feature dictionaries classify_mood was called with
    signal,         \* what the DSP routines compute from the loaded audio
    http_request,   \* the request an HTTP handler serves
    http_status,    \* the status code it answers with
    tmp_dir,        \* the temporary files on disk
    tmp_created,    \* the temporary files the handler has created
    library,          \* MusicLibraryApp.library
    filtered_library, \* MusicLibraryApp.filtered_library
    current_folder,   \* MusicLibraryApp.current_folder, "" for None
    is_analyzing,     \* MusicLibraryApp.is_analyzing
    analyze_btn,      \* the state of the 'Analyze All' button
    filter_widgets,   \* what the filter comboboxes and entries hold
    workers,          \* the threads started by analyze_folder
    tk_queue          \* the callbacks scheduled with root.after(0, ...)

analyzer_vars ==
    <<request, returned, raised, stdout, extract_calls, classify_calls>>

http_vars == <<http_request, http_status, tmp_dir, tmp_created>>

gui_vars ==
    <<library, filtered_library, current_folder, is_analyzing, analyze_btn,
      filter_widgets, workers, tk_queue>>

vars ==
    <<features, mood_result, pc, analyzer_vars, signal, http_vars, gui_vars>>

\* ------------------------------------------------------------------------
\* Input grid
\* ------------------------------------------------------------------------

\* Every tempo and energy threshold is probed at itself and at each
\* distance up to Spread units on either side.
Spread == 1

Min(a, b) == IF a < b THEN a ELSE b

Around(S) == {s + d : s \in S, d \in (0 - Spread)..Spread}

\* energy thresholds of detect_mood, plus the spec's worked examples
\* (0.05, 0.85) and the ends of the working range.
EnergyValues ==
    Around({100, 120, 150, 200, 250, 300, 400, 500, 600, 700, 800})
        \cup {0, 50, 850, 1000}

\* tempo thresholds of detect_mood, 90 BPM (doubles to 180), the 60 BPM
\* fallback of the extractor and 200 BPM.
TempoValues ==
    Around({7000, 8000, 9000, 10000, 11500, 12000, 13000, 14500, 14800,
            18000})
        \cup {6000, 20000}

\* either side of the 0.2 threshold, and the spec's example 0.05
ConfidenceValues == {50, 199, 200}

\* either side of the 0.25 threshold, and the spec's example 0.9
ZcrValues == {250, 251, 900}

\* either side of the brightness thresholds 0.3, 0.4 and 0.5, and a
\* centroid above the 5000 Hz cap
CentroidValues == {1495, 1500, 1995, 2000, 2500, 2505, 6000}

\* 12-bin chroma vectors: all-zero, and roots with the major third
\* stronger, the minor third stronger, and both thirds equal.
ChromaOf(root, maj, min) ==
    [i \in 1..12 |->
        IF i - 1 = root THEN 9
        ELSE IF i - 1 = (root + 4) % 12 THEN maj
        ELSE IF i - 1 = (root + 3) % 12 THEN min
        ELSE 1]

ChromaValues ==
    { [i \in 1..12 |-> 0],
      ChromaOf(0, 5, 2),
      ChromaOf(9, 2, 5),
      ChromaOf(10, 4, 4) }

\* A feature dictionary; the key tempo_confidence may be missing.
FeatureVectors ==
    [tempo : TempoValues, tempo_confidence : ConfidenceValues,
     energy : EnergyValues, spectral_centroid : CentroidValues,
     zero_crossing_rate : ZcrValues, chroma : ChromaValues]
    \cup
    [tempo : TempoValues,
     energy : EnergyValues, spectral_centroid : CentroidValues,
     zero_crossing_rate : ZcrValues, chroma : ChromaValues]

\* ------------------------------------------------------------------------
\* Key / mode estimation
\* ------------------------------------------------------------------------

\* Variant: the index of the last maximum.
argmax_LastMaximum(chroma) ==
    CHOOSE i \in 0..(Len(chroma) - 1) :
        /\ \A j \in 0..(Len(chroma) - 1) : chroma[j + 1] <= chroma[i + 1]
        /\ \A j \in (i + 1)..(Len(chroma) - 1) : chroma[j + 1] < chroma[i + 1]

\* np.argmax: 0-based index of the first maximum.
argmax(chroma) ==
    CHOOSE i \in 0..(Len(chroma) - 1) :
        /\ \A j \in 0..(Len(chroma) - 1) : chroma[j + 1] <= chroma[i + 1]
        /\ \A j \in 0..(i - 1) : chroma[j + 1] < chroma[i + 1]

determine_major_minor(chroma_features) ==
    LET root_idx == argmax(chroma_features)
        major_third_idx == (root_idx + 4) % 12
        minor_third_idx == (root_idx + 3) % 12
        major_strength == chroma_features[major_third_idx + 1]
        minor_strength == chroma_features[minor_third_idx + 1]
    IN  major_strength > minor_strength

notes == <<"C", "C#", "D", "D#", "E", "F", "F#", "G", "G#", "A", "A#", "B">>

\* Variant: the key is printed from a comparison of its own, in which
\* equal thirds count as major.
determine_key_TieIsMajor(chroma_features) ==
    LET max_idx == argmax(chroma_features)
        base_note == notes[max_idx + 1]
        is_major == chroma_features[((max_idx + 4) % 12) + 1]
                        >= chroma_features[((max_idx + 3) % 12) + 1]
    IN  base_note \o " " \o (IF is_major THEN "major" ELSE "minor")

determine_key(chroma_features) ==
    LET max_idx == argmax(chroma_features)
        base_note == notes[max_idx + 1]
        is_major == determine_major_minor(chroma_features)
    IN  base_note \o " " \o (IF is_major THEN "major" ELSE "minor")

\* ------------------------------------------------------------------------
\* Mood decision engine: detect_mood
\* ------------------------------------------------------------------------

\* What a block of detect_mood yields when its guard is false and control
\* falls through to the next block.
NoMatch == "<fall through>"

\* Variant: the energy bound is inclusive.
HalfTempoDetection_EnergyInclusive(tempo, energy) ==
    IF 8000 <= tempo /\ tempo <= 14500 /\ energy >= 800
    THEN tempo * 2
    ELSE tempo

\* Variant: 145 BPM itself is not doubled.
HalfTempoDetection_UpperExclusive(tempo, energy) ==
    IF 8000 <= tempo /\ tempo < 14500 /\ energy > 800
    THEN tempo * 2
    ELSE tempo

\* HALF-TEMPO DETECTION: the tempo the rest of detect_mood works with.
HalfTempoDetection(tempo, energy) ==
    IF 8000 <= tempo /\ tempo <= 14500 /\ energy > 800
    THEN tempo * 2
    ELSE tempo

\* brightness = min(spectral_centroid / 5000.0, 1.0), in thousandths
Brightness(spectral_centroid) ==
    Min((spectral_centroid * 1000) \div 5000, 1000)

\* Variant: brightness exactly 0.3 still counts as dark.
DronesAmbient_BrightnessInclusive(energy, tempo_confidence, brightness) ==
    IF tempo_confidence < 200
    THEN IF energy < 150 THEN "Ambient/Drone"
         ELSE IF energy < 300 THEN "Atmospheric/Textural"
         ELSE IF energy < 500 THEN "Atmospheric/Textural"
         ELSE IF energy < 700
              THEN (IF brightness <= 300 THEN "Atmospheric/Textural"
                                        ELSE "Noise/Experimental")
         ELSE "Harsh Noise/Experimental"
    ELSE NoMatch

\* DRONES/AMBIENT
DronesAmbient(energy, tempo_confidence, brightness) ==
    IF tempo_confidence < 200
    THEN IF energy < 150 THEN "Ambient/Drone"
         ELSE IF energy < 300 THEN "Atmospheric/Textural"
         ELSE IF energy < 500 THEN "Atmospheric/Textural"
         ELSE IF energy < 700
              THEN (IF brightness < 300 THEN "Atmospheric/Textural"
                                        ELSE "Noise/Experimental")
         ELSE "Harsh Noise/Experimental"
    ELSE NoMatch

\* Variant: a zero crossing rate of exactly 0.25 is noisy.
ExperimentalNoise_ZcrInclusive(energy, zero_crossing_rate) ==
    IF zero_crossing_rate >= 250
    THEN IF energy > 300 THEN "Harsh Noise/Experimental"
                         ELSE "Glitch/Experimental"
    ELSE NoMatch

\* EXPERIMENTAL/NOISE
ExperimentalNoise(energy, zero_crossing_rate) ==
    IF zero_crossing_rate > 250
    THEN IF energy > 300 THEN "Harsh Noise/Experimental"
                         ELSE "Glitch/Experimental"
    ELSE NoMatch

\* TECHNO/ELECTRONIC
TechnoElectronic(energy, tempo, brightness) ==
    IF 12000 <= tempo /\ tempo <= 14500 /\ energy >= 500
    THEN IF brightness < 400 THEN "Techno/Dark" ELSE "Techno/Industrial"
    ELSE NoMatch

\* Variant: brightness exactly 0.5 counts as bright.
ClubDance_BrightnessInclusive(energy, tempo, brightness, is_major) ==
    IF 10000 <= tempo /\ tempo <= 13000 /\ energy >= 150
    THEN IF energy > 700
         THEN IF 11500 <= tempo /\ tempo <= 13000
              THEN (IF brightness >= 500 THEN "Techno/Industrial"
                                        ELSE "Techno/Dark")
              ELSE "Energetic/Rave"
         ELSE IF 10000 <= tempo /\ tempo <= 11500 /\ energy < 500
              THEN "Disco/Funk"
         ELSE IF brightness > 500
              THEN (IF is_major THEN "House/Dance" ELSE "Dark House")
         ELSE IF brightness > 400 THEN "Disco/Funk"
         ELSE "Club/Groovy"
    ELSE NoMatch

\* CLUB/DANCE MUSIC
ClubDance(energy, tempo, brightness, is_major) ==
    IF 10000 <= tempo /\ tempo <= 13000 /\ energy >= 150
    THEN IF energy > 700
         THEN IF 11500 <= tempo /\ tempo <= 13000
              THEN (IF brightness > 500 THEN "Techno/Industrial"
                                        ELSE "Techno/Dark")
              ELSE "Energetic/Rave"
         ELSE IF 10000 <= tempo /\ tempo <= 11500 /\ energy < 500
              THEN "Disco/Funk"
         ELSE IF brightness > 500
              THEN (IF is_major THEN "House/Dance" ELSE "Dark House")
         ELSE IF brightness > 400 THEN "Disco/Funk"
         ELSE "Club/Groovy"
    ELSE NoMatch

\* DRUM & BASS / FAST
DrumAndBassFast(energy, tempo) ==
    IF 14800 <= tempo /\ tempo <= 18000
    THEN IF energy > 400 THEN "Drum & Bass"
         ELSE IF energy > 250 THEN "Breakbeat/Fast"
         ELSE "Fast/Atmospheric"
    ELSE NoMatch

\* Variant: energy exactly 0.6 is already "Energetic/Rave".
HighEnergyRaveHard_EnergyInclusive(energy, tempo) ==
    IF tempo > 18000 \/ energy > 700
    THEN IF energy > 800 THEN "Hard/Aggressive"
         ELSE IF energy >= 600 THEN "Energetic/Rave"
         ELSE "Driving Electronic"
    ELSE NoMatch

\* HIGH ENERGY RAVE/HARD
HighEnergyRaveHard(energy, tempo) ==
    IF tempo > 18000 \/ energy > 700
    THEN IF energy > 800 THEN "Hard/Aggressive"
         ELSE IF energy > 600 THEN "Energetic/Rave"
         ELSE "Driving Electronic"
    ELSE NoMatch

\* Variant: exactly 70 BPM still counts as slow.
AmbientAtmospheric_SlowInclusive(energy, tempo, brightness, is_major) ==
    IF energy < 200
    THEN IF tempo <= 7000
         THEN IF energy < 100 THEN "Ambient/Atmospheric"
              ELSE IF ~is_major THEN "Melancholic/Sad"
              ELSE "Downtempo/Relaxed"
         ELSE IF 7000 <= tempo /\ tempo < 10000
         THEN IF energy < 100 /\ brightness < 400 THEN "Downtempo/Dark"
              ELSE IF energy < 120 THEN "Ambient/Chill"
              ELSE "Midtempo Groove"
         ELSE "Minimal/Sparse"
    ELSE NoMatch

\* AMBIENT/ATMOSPHERIC
AmbientAtmospheric(energy, tempo, brightness, is_major) ==
    IF energy < 200
    THEN IF tempo < 7000
         THEN IF energy < 100 THEN "Ambient/Atmospheric"
              ELSE IF ~is_major THEN "Melancholic/Sad"
              ELSE "Downtempo/Relaxed"
         ELSE IF 7000 <= tempo /\ tempo < 10000
         THEN IF energy < 100 /\ brightness < 400 THEN "Downtempo/Dark"
              ELSE IF energy < 120 THEN "Ambient/Chill"
              ELSE "Midtempo Groove"
         ELSE "Minimal/Sparse"
    ELSE NoMatch

\* Variant: the slow leaf of the fallback is missing, control runs off the
\* end of the function.
ModerateEnergy_NoSlowLeaf(energy, tempo) ==
    IF energy >= 250
    THEN (IF tempo > 10000 THEN "Upbeat/Moderate" ELSE NoMatch)
    ELSE IF energy >= 150 THEN "Relaxed/Moderate"
    ELSE "Low Energy"

\* Variant: energy exactly 0.25 is not yet moderate.
ModerateEnergy_EnergyExclusive(energy, tempo) ==
    IF energy > 250
    THEN (IF tempo > 10000 THEN "Upbeat/Moderate" ELSE "Moderate Groove")
    ELSE IF energy >= 150 THEN "Relaxed/Moderate"
    ELSE "Low Energy"

\* MODERATE ENERGY (Fallback)
ModerateEnergy(energy, tempo) ==
    IF energy >= 250
    THEN (IF tempo > 10000 THEN "Upbeat/Moderate" ELSE "Moderate Groove")
    ELSE IF energy >= 150 THEN "Relaxed/Moderate"
    ELSE "Low Energy"

\* The label of the first block, in the given order, that returns.
RECURSIVE FirstMatch(_)
FirstMatch(blocks) ==
    IF blocks = <<>> THEN NoMatch
    ELSE IF Head(blocks) # NoMatch THEN Head(blocks)
    ELSE FirstMatch(Tail(blocks))

\* Variant: the high-energy band is tried before the Drum & Bass band.
detect_mood_HighEnergyBeforeDnB(energy, tempo_in, tempo_confidence, chroma, spectral_centroid, zero_crossing_rate) ==
    LET brightness == Brightness(spectral_centroid)
        is_major == determine_major_minor(chroma)
        tempo == HalfTempoDetection(tempo_in, energy)
    IN  << FirstMatch(<<
               DronesAmbient(energy, tempo_confidence, brightness),
               ExperimentalNoise(energy, zero_crossing_rate),
               TechnoElectronic(energy, tempo, brightness),
               ClubDance(energy, tempo, brightness, is_major),
               HighEnergyRaveHard(energy, tempo),
               DrumAndBassFast(energy, tempo),
               AmbientAtmospheric(energy, tempo, brightness, is_major),
               ModerateEnergy(energy, tempo) >>),
           tempo >>

\* Variant: the Club/House band is tried before the Techno band.
detect_mood_ClubBeforeTechno(energy, tempo_in, tempo_confidence, chroma, spectral_centroid, zero_crossing_rate) ==
    LET brightness == Brightness(spectral_centroid)
        is_major == determine_major_minor(chroma)
        tempo == HalfTempoDetection(tempo_in, energy)
    IN  << FirstMatch(<<
               DronesAmbient(energy, tempo_confidence, brightness),
               ExperimentalNoise(energy, zero_crossing_rate),
               ClubDance(energy, tempo, brightness, is_major),
               TechnoElectronic(energy, tempo, brightness),
               DrumAndBassFast(energy, tempo),
               HighEnergyRaveHard(energy, tempo),
               AmbientAtmospheric(energy, tempo, brightness, is_major),
               ModerateEnergy(energy, tempo) >>),
           tempo >>

\* Variant: the noise rule is tried before the no-beat rule.
detect_mood_NoiseBeforeDrones(energy, tempo_in, tempo_confidence, chroma, spectral_centroid, zero_crossing_rate) ==
    LET brightness == Brightness(spectral_centroid)
        is_major == determine_major_minor(chroma)
        tempo == HalfTempoDetection(tempo_in, energy)
    IN  << FirstMatch(<<
               ExperimentalNoise(energy, zero_crossing_rate),
               DronesAmbient(energy, tempo_confidence, brightness),
               TechnoElectronic(energy, tempo, brightness),
               ClubDance(energy, tempo, brightness, is_major),
               DrumAndBassFast(energy, tempo),
               HighEnergyRaveHard(energy, tempo),
               AmbientAtmospheric(energy, tempo, brightness, is_major),
               ModerateEnergy(energy, tempo) >>),
           tempo >>

\* returns <<mood, corrected tempo>>
detect_mood(energy, tempo_in, tempo_confidence, chroma, spectral_centroid, zero_crossing_rate) ==
    LET brightness == Brightness(spectral_centroid)
        is_major == determine_major_minor(chroma)
        tempo == HalfTempoDetection(tempo_in, energy)
    IN  << FirstMatch(<<
               DronesAmbient(energy, tempo_confidence, brightness),
               ExperimentalNoise(energy, zero_crossing_rate),
               TechnoElectronic(energy, tempo, brightness),
               ClubDance(energy, tempo, brightness, is_major),
               DrumAndBassFast(energy, tempo),
               HighEnergyRaveHard(energy, tempo),
               AmbientAtmospheric(energy, tempo, brightness, is_major),
               ModerateEnergy(energy, tempo) >>),
           tempo >>

\* ------------------------------------------------------------------------
\* Similarity scoring
\* ------------------------------------------------------------------------

Abs(x) == IF x < 0 THEN 0 - x ELSE x

Max(a, b) == IF a > b THEN a ELSE b

\* np.sqrt, rounded down to a whole number: Newton's iteration from a
\* start x > 0 that is not below the root.
RECURSIVE SqrtFrom(_, _)
SqrtFrom(n, x) ==
    LET y == (x + n \div x) \div 2
    IN  IF y >= x THEN x ELSE SqrtFrom(n, y)

\* DJ-relevant reference points: energy and brightness in thousandths,
\* tempo in hundredths of a BPM.
reference_moods ==
    [House     |-> [energy |-> 150, tempo |-> 12500, brightness |-> 600],
     Techno    |-> [energy |-> 160, tempo |-> 13000, brightness |-> 400],
     Disco     |-> [energy |-> 140, tempo |-> 11500, brightness |-> 700],
     Ambient   |-> [energy |-> 40,  tempo |-> 7000,  brightness |-> 500],
     DnB       |-> [energy |-> 180, tempo |-> 17000, brightness |-> 500],
     Downtempo |-> [energy |-> 80,  tempo |-> 9000,  brightness |-> 400]]

\* distance = sqrt((energy_diff * 2)^2 + (tempo_diff * 3)^2
\*                 + (brightness_diff * 1)^2), in ten-thousandths.
\* energy_diff and brightness_diff are differences of thousandths, and
\* tempo_diff, the difference of hundredths of a BPM divided by 100, is
\* that difference read in ten-thousandths.  When the tempo term alone is
\* 3.0 or more the sum of squares leaves the 32-bit range; the distance,
\* which is at least its tempo term, is then held as that term (every
\* distance of 3.0 or more gives similarity 0).
WeightedDistance(energy, tempo, norm_brightness, ref) ==
    LET energy_diff == Abs(energy - ref.energy) * 10
        tempo_diff == Abs(tempo - ref.tempo)
        brightness_diff == Abs(norm_brightness - ref.brightness) * 10
    IN  IF tempo_diff * 3 >= 30000
        THEN tempo_diff * 3
        ELSE LET sum == (energy_diff * 2) * (energy_diff * 2)
                        + (tempo_diff * 3) * (tempo_diff * 3)
                        + (brightness_diff * 1) * (brightness_diff * 1)
             IN  IF sum = 0 THEN 0
                 ELSE SqrtFrom(sum, energy_diff * 2 + tempo_diff * 3
                                    + brightness_diff * 1)

\* Variant: the similarity is not floored at 0.
Similarity_NoFloor(distance) ==
    100 - (distance + 150) \div 300

\* round(max(0.0, 1.0 - distance / 3.0), 2), in hundredths: distance is a
\* whole number of ten-thousandths rounded down, so distance / 3.0 is
\* nearest to k hundredths exactly when 300k - 150 <= distance < 300k + 150.
Similarity(distance) ==
    Max(0, 100 - (distance + 150) \div 300)

\* Variant: the centroid is normalized by 10000 Hz instead of 5000 Hz.
calculate_similarity_scores_Normalize10000(energy, tempo, brightness) ==
    LET norm_brightness == Min((brightness * 1000) \div 10000, 1000)
    IN  [name \in DOMAIN reference_moods |->
            Similarity(WeightedDistance(energy, tempo, norm_brightness,
                                        reference_moods[name]))]

calculate_similarity_scores(energy, tempo, brightness) ==
    LET norm_brightness == Min((brightness * 1000) \div 5000, 1000)
    IN  [name \in DOMAIN reference_moods |->
            Similarity(WeightedDistance(energy, tempo, norm_brightness,
                                        reference_moods[name]))]

\* ------------------------------------------------------------------------
\* Explanation
\* ------------------------------------------------------------------------

\* str.capitalize() on the energy descriptions
Capitalize(desc) ==
    CASE desc = "very low"  -> "Very low"
      [] desc = "low"       -> "Low"
      [] desc = "moderate"  -> "Moderate"
      [] desc = "high"      -> "High"
      [] desc = "very high" -> "Very high"

\* f"{energy:.3f}" of a number of thousandths
Format3f(thousandths) ==
    LET frac == thousandths % 1000
    IN  ToString(thousandths \div 1000) \o "."
        \o (IF frac < 10 THEN "00" ELSE IF frac < 100 THEN "0" ELSE "")
        \o ToString(frac)

\* f"{tempo:.1f}" of a number of hundredths: rounded to the nearest tenth
\* (no tempo of the input grid lies halfway between two tenths).
Format1f(hundredths) ==
    LET tenths == (hundredths + 5) \div 10
    IN  ToString(tenths \div 10) \o "." \o ToString(tenths % 10)

\* Variant: the upper bound of the moderate energy tier is inclusive.
generate_explanation_UpperInclusive(energy, tempo, brightness, key) ==
    LET norm_brightness == Min((brightness * 1000) \div 5000, 1000)
        energy_desc ==
            IF energy < 100 THEN "very low"
            ELSE IF energy < 200 THEN "low"
            ELSE IF energy <= 350 THEN "moderate"
            ELSE IF energy < 500 THEN "high"
            ELSE "very high"
        bright_desc ==
            IF norm_brightness < 300 THEN "dark/mellow"
            ELSE IF norm_brightness < 600 THEN "balanced"
            ELSE "bright/sharp"
        tempo_desc ==
            IF tempo < 8000 THEN "slow"
            ELSE IF tempo < 11000 THEN "moderate"
            ELSE IF tempo < 13000 THEN "dance"
            ELSE IF tempo < 15000 THEN "fast"
            ELSE "very fast"
    IN  Capitalize(energy_desc) \o " energy (" \o Format3f(energy) \o "), "
        \o tempo_desc \o " tempo (" \o Format1f(tempo) \o " BPM), "
        \o bright_desc \o " timbre, "
        \o "key of " \o key

generate_explanation(energy, tempo, brightness, key) ==
    LET norm_brightness == Min((brightness * 1000) \div 5000, 1000)
        energy_desc ==
            IF energy < 100 THEN "very low"
            ELSE IF energy < 200 THEN "low"
            ELSE IF energy < 350 THEN "moderate"
            ELSE IF energy < 500 THEN "high"
            ELSE "very high"
        bright_desc ==
            IF norm_brightness < 300 THEN "dark/mellow"
            ELSE IF norm_brightness < 600 THEN "balanced"
            ELSE "bright/sharp"
        tempo_desc ==
            IF tempo < 8000 THEN "slow"
            ELSE IF tempo < 11000 THEN "moderate"
            ELSE IF tempo < 13000 THEN "dance"
            ELSE IF tempo < 15000 THEN "fast"
            ELSE "very fast"
    IN  Capitalize(energy_desc) \o " energy (" \o Format3f(energy) \o "), "
        \o tempo_desc \o " tempo (" \o Format1f(tempo) \o " BPM), "
        \o bright_desc \o " timbre, "
        \o "key of " \o key

\* ------------------------------------------------------------------------
\* classify_mood
\* ------------------------------------------------------------------------

\* features.get('tempo_confidence', 1.0)
GetTempoConfidence(feats) ==
    IF "tempo_confidence" \in DOMAIN feats THEN feats.tempo_confidence
    ELSE 1000

\* Variant: similarity and explanation are given the tempo as extracted.
classify_mood_RawTempoDownstream(feats) ==
    LET tempo == feats.tempo
        tempo_confidence == GetTempoConfidence(feats)
        energy == feats.energy
        spectral_centroid == feats.spectral_centroid
        zero_crossing_rate == feats.zero_crossing_rate
        detected == detect_mood(energy, tempo, tempo_confidence, feats.chroma,
                                spectral_centroid, zero_crossing_rate)
        mood == detected[1]
        corrected_tempo == detected[2]
        key == determine_key(feats.chroma)
        similarity_scores ==
            calculate_similarity_scores(energy, tempo,
                                        spectral_centroid)
        explanation ==
            generate_explanation(energy, tempo, spectral_centroid,
                                 key)
    IN  [mood |-> mood, energy |-> energy, tempo |-> corrected_tempo,
         key |-> key, similarity_scores |-> similarity_scores,
         explanation |-> explanation]

classify_mood(feats) ==
    LET tempo == feats.tempo
        tempo_confidence == GetTempoConfidence(feats)
        energy == feats.energy
        spectral_centroid == feats.spectral_centroid
        zero_crossing_rate == feats.zero_crossing_rate
        detected == detect_mood(energy, tempo, tempo_confidence, feats.chroma,
                                spectral_centroid, zero_crossing_rate)
        mood == detected[1]
        corrected_tempo == detected[2]
        key == determine_key(feats.chroma)
        similarity_scores ==
            calculate_similarity_scores(energy, corrected_tempo,
                                        spectral_centroid)
        explanation ==
            generate_explanation(energy, corrected_tempo, spectral_centroid,
                                 key)
    IN  [mood |-> mood, energy |-> energy, tempo |-> corrected_tempo,
         key |-> key, similarity_scores |-> similarity_scores,
         explanation |-> explanation]

\* ------------------------------------------------------------------------
\* State machine: one feature vector is classified
\* ------------------------------------------------------------------------

\* mood_result before classify_mood has returned
NoResult ==
    [mood |-> NoMatch, energy |-> 0, tempo |-> 0, key |-> "",
     similarity_scores |-> <<>>, explanation |-> ""]

\* no call into the analyzer has been made
NoRequest ==
    [op |-> "none", paths |-> <<>>, detailed |-> FALSE,
     similarity_search |-> FALSE]

\* no audio has been loaded
NoSignal ==
    [raises |-> FALSE, tempo |-> 0, variance |-> 0, energy |-> 0,
     spectral_centroid |-> 0, zero_crossing_rate |-> 0,
     chroma |-> [i \in 1..12 |-> 0]]

\* no HTTP request has been received
NoHttpRequest ==
    [op |-> "none", files |-> <<>>, detailed |-> FALSE,
     similarity_search |-> FALSE]

HttpIdle ==
    /\ http_request = NoHttpRequest
    /\ http_status = 0
    /\ tmp_dir = {}
    /\ tmp_created = {}

\* the filter widgets as build_ui and clear_filters fill them: tempo in
\* hundredths of a BPM, energy in thousandths
DefaultFilters ==
    [mood_filter |-> "All", key_filter |-> "All", parses |-> TRUE,
     tempo_min |-> 0, tempo_max |-> 20000,
     energy_min |-> 0, energy_max |-> 1000]

\* no library window has been opened
GuiIdle ==
    /\ library = <<>>
    /\ filtered_library = <<>>
    /\ current_folder = ""
    /\ is_analyzing = FALSE
    /\ analyze_btn = "disabled"
    /\ filter_widgets = DefaultFilters
    /\ workers = <<>>
    /\ tk_queue = <<>>

AnalyzerIdle ==
    /\ request = NoRequest
    /\ returned = <<>>
    /\ raised = "none"
    /\ stdout = <<>>
    /\ extract_calls = <<>>
    /\ classify_calls = <<>>

Init ==
    /\ features \in FeatureVectors
    /\ mood_result = NoResult
    /\ pc = "ready"
    /\ AnalyzerIdle
    /\ signal = NoSignal
    /\ HttpIdle
    /\ GuiIdle

\* mood_result = classify_mood(features)
CallClassifyMood ==
    /\ pc = "ready"
    /\ mood_result' = classify_mood(features)
    /\ pc' = "done"
    /\ UNCHANGED <<features, analyzer_vars, signal, http_vars, gui_vars>>

Next == CallClassifyMood

Spec == Init /\ [][Next]_vars

\* ------------------------------------------------------------------------
\* The same call on two further input grids
\* ------------------------------------------------------------------------

\* Chroma vectors for the key estimator: every root with the major third
\* stronger, the minor third stronger and both thirds equal; constant
\* vectors; and vectors with two equal maxima five semitones apart, the
\* first with a stronger minor third, the second with a stronger major
\* third.
TwoPeaks(r1) ==
    LET r2 == (r1 + 5) % 12
    IN  [i \in 1..12 |->
            IF i - 1 = r1 \/ i - 1 = r2 THEN 9
            ELSE IF i - 1 = (r1 + 3) % 12 \/ i - 1 = (r2 + 4) % 12 THEN 5
            ELSE IF i - 1 = (r1 + 4) % 12 \/ i - 1 = (r2 + 3) % 12 THEN 2
            ELSE 1]

KeyChromaValues ==
    {ChromaOf(root, 5, 2) : root \in 0..11}
        \cup {ChromaOf(root, 2, 5) : root \in 0..11}
        \cup {ChromaOf(root, 4, 4) : root \in 0..11}
        \cup {TwoPeaks(r1) : r1 \in 0..11}
        \cup {[i \in 1..12 |-> c] : c \in {0, 3}}

KeyFeatureVectors ==
    [tempo : {6000, 12500}, energy : {150, 600},
     spectral_centroid : {3000}, zero_crossing_rate : {100},
     chroma : KeyChromaValues]

InitKey ==
    /\ features \in KeyFeatureVectors
    /\ mood_result = NoResult
    /\ pc = "ready"
    /\ AnalyzerIdle
    /\ signal = NoSignal
    /\ HttpIdle
    /\ GuiIdle

SpecKey == InitKey /\ [][Next]_vars

\* Inputs for similarity scoring and the explanation: the tier bounds of
\* generate_explanation with their neighbours, and the energy, tempo and
\* centroid of every reference mood.
TierEnergyValues ==
    Around({100, 200, 350, 500})
        \cup {reference_moods[name].energy : name \in DOMAIN reference_moods}
        \cup {0, 850, 1000}

TierTempoValues ==
    Around({8000, 11000, 13000, 15000})
        \cup {reference_moods[name].tempo : name \in DOMAIN reference_moods}
        \cup {6000, 14500, 40000}

TierCentroidValues ==
    {0, 1495, 1500, 2995, 3000, 6000}
        \cup {reference_moods[name].brightness * 5 :
                 name \in DOMAIN reference_moods}

TierFeatureVectors ==
    [tempo : TierTempoValues, energy : TierEnergyValues,
     spectral_centroid : TierCentroidValues, zero_crossing_rate : {100},
     chroma : ChromaValues]

InitTiers ==
    /\ features \in TierFeatureVectors
    /\ mood_result = NoResult
    /\ pc = "ready"
    /\ AnalyzerIdle
    /\ signal = NoSignal
    /\ HttpIdle
    /\ GuiIdle

SpecTiers == InitTiers /\ [][Next]_vars

\* ------------------------------------------------------------------------
\* The analyzer: analyze_audio and batch_analyze
\* ------------------------------------------------------------------------

\* the longest list of paths given to batch_analyze
MaxFiles == 3

\* Two tracks as the extractor describes them: one that is doubled by the
\* half-tempo correction, one at the House reference point.
TrackA ==
    [tempo |-> 10000, tempo_confidence |-> 500, energy |-> 850,
     spectral_centroid |-> 2505, zero_crossing_rate |-> 100,
     chroma |-> ChromaOf(0, 5, 2), duration |-> 18050]

TrackB ==
    [tempo |-> 12500, tempo_confidence |-> 500, energy |-> 150,
     spectral_centroid |-> 3000, zero_crossing_rate |-> 100,
     chroma |-> ChromaOf(9, 2, 5), duration |-> 2999]

\* A path and what the file system holds under it.  content is "audio"
\* (decodes and can be analysed), "empty" (decodes to no samples),
\* "garbage" (librosa.load raises), "truncated" (the first second decodes,
\* extract_features raises) or "none" (no such file).
AudioPaths ==
    [suffix : {".mp3"}, exists : {TRUE},
     content : {"audio"}, track : {TrackA, TrackB}]
    \cup [suffix : {".mp3"}, exists : {TRUE},
          content : {"empty", "garbage", "truncated"}, track : {TrackA}]
    \cup [suffix : {".MP3"}, exists : {TRUE},
          content : {"audio"}, track : {TrackB}]
    \cup [suffix : {".txt"}, exists : {TRUE},
          content : {"audio", "garbage"}, track : {TrackA}]
    \cup [suffix : {".mp3", ".txt"}, exists : {FALSE},
          content : {"none"}, track : {TrackA}]

PathLists == UNION {[1..n -> AudioPaths] : n \in 0..MaxFiles}

\* str.lower() on the suffixes in use
Lower(suffix) ==
    CASE suffix = ".MP3" -> ".mp3"
      [] OTHER -> suffix

ALLOWED_EXTENSIONS == {".mp3", ".wav", ".flac", ".ogg", ".m4a", ".aac"}

\* librosa.load(path, duration=1) raises
LoadRaises(audio_path) ==
    ~audio_path.exists \/ audio_path.content = "garbage"

is_valid_audio(filepath) ==
    IF Lower(filepath.suffix) \notin ALLOWED_EXTENSIONS THEN FALSE
    ELSE IF LoadRaises(filepath) THEN FALSE
    ELSE filepath.content # "empty"

\* f"{duration:.2f}" of a number of hundredths
Format2f(hundredths) ==
    LET frac == hundredths % 100
    IN  ToString(hundredths \div 100) \o "."
        \o (IF frac < 10 THEN "0" ELSE "") \o ToString(frac)

\* How a call of analyze_audio ends: the exception it raises ("none" when
\* it returns), the MoodResult it returns, and the calls it made to
\* extract_features and classify_mood.
Raise(exception, extracted, classified) ==
    [raised |-> exception, result |-> NoResult,
     extract_calls |-> extracted, classify_calls |-> classified]

\* line 66-68: the duration is appended to the explanation
AddDuration(result, feats, detailed) ==
    IF detailed
    THEN [result EXCEPT !.explanation =
             @ \o ". Duration: " \o Format2f(feats.duration) \o " seconds"]
    ELSE result

\* line 71-76: similarity scores are recomputed when there are none, by a
\* call that passes one argument where three are required
EnsureSimilarity(audio_path, feats, result, similarity_search) ==
    IF similarity_search /\ DOMAIN result.similarity_scores = {}
    THEN Raise("TypeError", <<audio_path>>, <<feats>>)
    ELSE [raised |-> "none", result |-> result,
          extract_calls |-> <<audio_path>>, classify_calls |-> <<feats>>]

\* Variant: the file is validated before its existence is checked.
analyze_audio_ValidateFirst(audio_path, detailed, similarity_search) ==
    IF ~is_valid_audio(audio_path)
    THEN Raise("ValueError", <<>>, <<>>)
    ELSE IF ~audio_path.exists
    THEN Raise("FileNotFoundError", <<>>, <<>>)
    ELSE IF audio_path.content = "truncated"
    THEN Raise("Exception", <<audio_path>>, <<>>)
    ELSE EnsureSimilarity(audio_path, audio_path.track,
                          AddDuration(classify_mood(audio_path.track),
                                      audio_path.track, detailed),
                          similarity_search)

analyze_audio(audio_path, detailed, similarity_search) ==
    IF ~audio_path.exists
    THEN Raise("FileNotFoundError", <<>>, <<>>)
    ELSE IF ~is_valid_audio(audio_path)
    THEN Raise("ValueError", <<>>, <<>>)
    ELSE IF audio_path.content = "truncated"
    THEN Raise("Exception", <<audio_path>>, <<>>)
    ELSE EnsureSimilarity(audio_path, audio_path.track,
                          AddDuration(classify_mood(audio_path.track),
                                      audio_path.track, detailed),
                          similarity_search)

\* The state of the loop of batch_analyze: the results and the printed
\* errors so far, the calls made, and the exception that has left the
\* loop, if any.
BatchStart ==
    [results |-> <<>>, stdout |-> <<>>, raised |-> "none",
     extract_calls |-> <<>>, classify_calls |-> <<>>]

\* the calls analyze_audio made are added to those of the loop
RecordCalls(loop, outcome) ==
    [loop EXCEPT !.extract_calls = @ \o outcome.extract_calls,
                 !.classify_calls = @ \o outcome.classify_calls]

\* Variant: only the errors analyze_audio raises itself are caught.
TryAnalyze_CatchOwnErrors(loop, path, outcome) ==
    IF outcome.raised = "none"
    THEN [loop EXCEPT !.results = Append(@, outcome.result)]
    ELSE IF outcome.raised \in {"FileNotFoundError", "ValueError"}
    THEN [loop EXCEPT !.stdout =
             Append(@, [path |-> path, error |-> outcome.raised])]
    ELSE [loop EXCEPT !.raised = outcome.raised]

\* try: append the result; except Exception: print and continue
TryAnalyze(loop, path, outcome) ==
    IF outcome.raised = "none"
    THEN [loop EXCEPT !.results = Append(@, outcome.result)]
    ELSE [loop EXCEPT !.stdout =
             Append(@, [path |-> path, error |-> outcome.raised])]

\* one pass through the body of the for loop; nothing runs once an
\* exception has left the loop
BatchIteration(loop, path, outcome) ==
    IF loop.raised # "none" THEN loop
    ELSE TryAnalyze(RecordCalls(loop, outcome), path, outcome)

\* the for loop: loop[i] is the state after the first i paths
batch_analyze(audio_paths, detailed, similarity_search) ==
    LET loop[i \in 0..Len(audio_paths)] ==
            IF i = 0 THEN BatchStart
            ELSE BatchIteration(loop[i - 1], audio_paths[i],
                                analyze_audio(audio_paths[i], detailed,
                                              similarity_search))
    IN  loop[Len(audio_paths)]

\* the caller receives what the call returned or raised
Respond(call, outcome_raised, results, printed, extracted, classified) ==
    /\ request' = call
    /\ returned' = IF outcome_raised = "none" THEN results ELSE <<>>
    /\ raised' = outcome_raised
    /\ stdout' = printed
    /\ extract_calls' = extracted
    /\ classify_calls' = classified

RespondAnalyze(call, outcome) ==
    Respond(call, outcome.raised, <<outcome.result>>, <<>>,
            outcome.extract_calls, outcome.classify_calls)

RespondBatch(call, loop) ==
    Respond(call, loop.raised, loop.results, loop.stdout,
            loop.extract_calls, loop.classify_calls)

InitAnalyzer ==
    /\ features = TrackA
    /\ mood_result = NoResult
    /\ pc = "front_end"
    /\ AnalyzerIdle
    /\ signal = NoSignal
    /\ HttpIdle
    /\ GuiIdle

\* a front end calls analyze_audio(path, detailed, similarity_search)
CallAnalyzeAudio ==
    /\ pc = "front_end"
    /\ \E path \in AudioPaths, detailed \in BOOLEAN,
          similarity_search \in BOOLEAN :
          RespondAnalyze([op |-> "analyze_audio", paths |-> <<path>>,
                          detailed |-> detailed,
                          similarity_search |-> similarity_search],
                         analyze_audio(path, detailed, similarity_search))
    /\ pc' = "done"
    /\ UNCHANGED <<features, mood_result, stdout, signal, http_vars, gui_vars>>

\* a front end calls batch_analyze(audio_paths, detailed, similarity_search)
CallBatchAnalyze ==
    /\ pc = "front_end"
    /\ \E audio_paths \in PathLists, detailed \in BOOLEAN,
          similarity_search \in BOOLEAN :
          RespondBatch([op |-> "batch_analyze", paths |-> audio_paths,
                        detailed |-> detailed,
                        similarity_search |-> similarity_search],
                       batch_analyze(audio_paths, detailed,
                                     similarity_search))
    /\ pc' = "done"
    /\ UNCHANGED <<features, mood_result, signal, http_vars, gui_vars>>

NextAnalyzer == CallAnalyzeAudio \/ CallBatchAnalyze

SpecAnalyzer == InitAnalyzer /\ [][NextAnalyzer]_vars

\* ------------------------------------------------------------------------
\* Tempo extraction followed by classification
\* ------------------------------------------------------------------------

\* What librosa computes from the audio: whether onset detection or beat
\* tracking raises, the tempo beat_track reports, the variance of the
\* onset envelope (in thousandths), and the other descriptors.
Signals ==
    [raises : BOOLEAN, tempo : {6000, 10000, 12500, 17000},
     variance : {0, 9, 10, 199, 200, 500},
     energy : {50, 150, 300, 500, 600, 700, 850},
     spectral_centroid : {1000, 1500, 3000},
     zero_crossing_rate : {100, 900},
     chroma : {ChromaOf(0, 5, 2), ChromaOf(9, 2, 5)}]

\* Variant: with a flat onset envelope the tracked tempo is returned.
extract_tempo_FallbackKeepsTempo(sig) ==
    IF sig.raises THEN <<6000, 0>>
    ELSE IF sig.variance < 10 THEN <<sig.tempo, sig.variance>>
    ELSE <<sig.tempo, sig.variance>>

\* <<tempo, beat_strength_variance>>
extract_tempo(sig) ==
    IF sig.raises THEN <<6000, 0>>
    ELSE IF sig.variance < 10 THEN <<6000, sig.variance>>
    ELSE <<sig.tempo, sig.variance>>

\* the keys of the feature dictionary that classify_mood reads
extract_features(sig) ==
    [tempo |-> extract_tempo(sig)[1],
     tempo_confidence |-> extract_tempo(sig)[2],
     energy |-> sig.energy,
     spectral_centroid |-> sig.spectral_centroid,
     zero_crossing_rate |-> sig.zero_crossing_rate,
     chroma |-> sig.chroma]

\* features before extract_features has returned
NoFeatures ==
    [tempo |-> 0, tempo_confidence |-> 0, energy |-> 0,
     spectral_centroid |-> 0, zero_crossing_rate |-> 0,
     chroma |-> [i \in 1..12 |-> 0]]

InitTempo ==
    /\ signal \in Signals
    /\ features = NoFeatures
    /\ mood_result = NoResult
    /\ pc = "loaded"
    /\ AnalyzerIdle
    /\ HttpIdle
    /\ GuiIdle

\* features = extract_features(str(audio_path))
CallExtractFeatures ==
    /\ pc = "loaded"
    /\ features' = extract_features(signal)
    /\ pc' = "ready"
    /\ UNCHANGED <<mood_result, analyzer_vars, signal, http_vars, gui_vars>>

NextTempo == CallExtractFeatures \/ CallClassifyMood

SpecTempo == InitTempo /\ [][NextTempo]_vars

\* ------------------------------------------------------------------------
\* The HTTP front end: POST /analyze and POST /batch-analyze
\* ------------------------------------------------------------------------

\* the longest list of files uploaded to /batch-analyze
MaxUploads == 2

\* An uploaded file: the extension of its name, whether reading it or
\* writing it to the temporary file fails, and what it holds.
Uploads ==
    [suffix : {".mp3", ".txt"},
     transfer : {"ok", "read fails", "write fails"},
     content : {"audio", "garbage", "truncated"}]

UploadLists == UNION {[1..n -> Uploads] : n \in 0..MaxUploads}

valid_extensions == {".mp3", ".wav", ".flac", ".m4a", ".aac", ".ogg"}

\* the temporary file an upload has been written to, as analyze_audio
\* finds it
TempPath(file) ==
    [suffix |-> Lower(file.suffix), exists |-> TRUE,
     content |-> file.content, track |-> TrackA]

\* the status the except clauses turn an exception of the analyzer into
StatusOf(exception) ==
    CASE exception = "none" -> 200
      [] exception \in {"FileNotFoundError", "ValueError"} -> 400
      [] OTHER -> 500

\* How a handler ends: the status, the temporary files it created and
\* those still on disk.
Answer(status, created, left) ==
    [status |-> status, created |-> created, left |-> left]

\* analyze_file; the temporary file is called 1
analyze_file(file, detailed, similarity_search) ==
    IF Lower(file.suffix) \notin valid_extensions
    THEN Answer(400, {}, {})
    ELSE IF file.transfer # "ok"
    THEN Answer(400, {1}, {1})
    ELSE Answer(StatusOf(analyze_audio(TempPath(file), detailed,
                                       similarity_search).raised),
                {1}, {})

\* The first loop of batch_analyze_files: the i-th upload is written to
\* the temporary file called i, which is appended to temp_paths once it
\* has been written.
SaveUploads(files) ==
    LET save[i \in 0..Len(files)] ==
            IF i = 0
            THEN [temp_paths |-> <<>>, created |-> {}, raised |-> FALSE]
            ELSE IF save[i - 1].raised THEN save[i - 1]
            ELSE IF files[i].transfer = "ok"
            THEN [temp_paths |-> Append(save[i - 1].temp_paths, i),
                  created |-> save[i - 1].created \cup {i},
                  raised |-> FALSE]
            ELSE [temp_paths |-> save[i - 1].temp_paths,
                  created |-> save[i - 1].created \cup {i},
                  raised |-> TRUE]
    IN  save[Len(files)]

\* the finally clause: every path in temp_paths is unlinked
Unlinked(saved) ==
    saved.created \ {saved.temp_paths[k] : k \in 1..Len(saved.temp_paths)}

\* the rest of batch_analyze_files once the uploads are saved; the
\* HTTPException of a failed upload is caught by except Exception
AnalyzeSaved(files, saved, detailed, similarity_search) ==
    IF saved.raised
    THEN Answer(500, saved.created, Unlinked(saved))
    ELSE Answer(StatusOf(batch_analyze(
                    [k \in 1..Len(saved.temp_paths) |->
                        TempPath(files[saved.temp_paths[k]])],
                    detailed, similarity_search).raised),
                saved.created, Unlinked(saved))

batch_analyze_files(files, detailed, similarity_search) ==
    IF \E i \in 1..Len(files) :
          Lower(files[i].suffix) \notin valid_extensions
    THEN Answer(400, {}, {})
    ELSE AnalyzeSaved(files, SaveUploads(files), detailed,
                      similarity_search)

InitHttp ==
    /\ features = TrackA
    /\ mood_result = NoResult
    /\ pc = "listening"
    /\ AnalyzerIdle
    /\ signal = NoSignal
    /\ HttpIdle
    /\ GuiIdle

\* the handler has answered
RespondHttp(call, answer) ==
    /\ http_request' = call
    /\ http_status' = answer.status
    /\ tmp_created' = tmp_dir \cup answer.created
    /\ tmp_dir' = tmp_dir \cup answer.left

PostAnalyze ==
    /\ pc = "listening"
    /\ \E file \in Uploads, detailed \in BOOLEAN,
          similarity_search \in BOOLEAN :
          RespondHttp([op |-> "analyze", files |-> <<file>>,
                       detailed |-> detailed,
                       similarity_search |-> similarity_search],
                      analyze_file(file, detailed, similarity_search))
    /\ pc' = "done"
    /\ UNCHANGED <<features, mood_result, analyzer_vars, signal, gui_vars>>

PostBatchAnalyze ==
    /\ pc = "listening"
    /\ \E files \in UploadLists, detailed \in BOOLEAN,
          similarity_search \in BOOLEAN :
          RespondHttp([op |-> "batch-analyze", files |-> files,
                       detailed |-> detailed,
                       similarity_search |-> similarity_search],
                      batch_analyze_files(files, detailed,
                                          similarity_search))
    /\ pc' = "done"
    /\ UNCHANGED <<features, mood_result, analyzer_vars, signal, gui_vars>>

NextHttp == PostAnalyze \/ PostBatchAnalyze

SpecHttp == InitHttp /\ [][NextHttp]_vars

\* ------------------------------------------------------------------------
\* The library GUI: MusicLibraryApp
\* ------------------------------------------------------------------------

\* the number of times 'Analyze All' starts a worker thread
MaxRuns == 2

\* a track the half-tempo correction doubles to 250 BPM
TrackFast ==
    [tempo |-> 12500, tempo_confidence |-> 500, energy |-> 850,
     spectral_centroid |-> 3000, zero_crossing_rate |-> 100,
     chroma |-> ChromaOf(0, 5, 2), duration |-> 24000]

FileFast ==
    [suffix |-> ".mp3", exists |-> TRUE, content |-> "audio",
     track |-> TrackFast]

FileHouse ==
    [suffix |-> ".mp3", exists |-> TRUE, content |-> "audio",
     track |-> TrackB]

FileBad ==
    [suffix |-> ".mp3", exists |-> TRUE, content |-> "garbage",
     track |-> TrackA]

\* the folders the dialog of select_folder can return
Folders == {"empty", "fast", "mixed"}

find_audio_files(folder) ==
    CASE folder = "fast"  -> <<FileFast>>
      [] folder = "mixed" -> <<FileHouse, FileBad>>
      [] OTHER            -> <<>>

\* the dictionary analyze_files_thread appends to the library (filename
\* and explanation, which nothing reads, are left out)
TrackOf(file, result) ==
    [path |-> file, mood |-> result.mood, tempo |-> result.tempo,
     energy |-> result.energy, key |-> result.key]

\* the libraries load_cache can find in the cache file
CachedLibraries ==
    {<<>>, <<TrackOf(FileHouse, classify_mood(TrackB))>>}

\* what the user can put into the filter widgets; parses is FALSE when an
\* entry does not hold a number
FilterSettings ==
    [mood_filter : {"All", "House/Dance"}, key_filter : {"All"},
     parses : BOOLEAN, tempo_min : {0}, tempo_max : {20000, 30000},
     energy_min : {0}, energy_max : {1000}]

\* the test of the loop of apply_filters
Shown(track, mood_filter, key_filter, tempo_min, tempo_max, energy_min, energy_max) ==
    /\ ~(mood_filter # "" /\ mood_filter # "All"
         /\ track.mood # mood_filter)
    /\ tempo_min <= track.tempo /\ track.tempo <= tempo_max
    /\ energy_min <= track.energy /\ track.energy <= energy_max
    /\ ~(key_filter # "" /\ key_filter # "All" /\ track.key # key_filter)

\* filtered_library as apply_filters computes it; the bounds fall back to
\* 0..200 and 0.0..1.0 when float() raises ValueError
Filtered(tracks, widgets) ==
    LET Test(track) ==
            Shown(track, widgets.mood_filter, widgets.key_filter,
                  IF widgets.parses THEN widgets.tempo_min ELSE 0,
                  IF widgets.parses THEN widgets.tempo_max ELSE 20000,
                  IF widgets.parses THEN widgets.energy_min ELSE 0,
                  IF widgets.parses THEN widgets.energy_max ELSE 1000)
    IN  SelectSeq(tracks, Test)

\* __init__: load_cache, build_ui, apply_filters
InitGui ==
    /\ features = TrackA
    /\ mood_result = NoResult
    /\ pc = "mainloop"
    /\ AnalyzerIdle
    /\ signal = NoSignal
    /\ HttpIdle
    /\ library \in CachedLibraries
    /\ filtered_library = Filtered(library, DefaultFilters)
    /\ current_folder = ""
    /\ is_analyzing = FALSE
    /\ analyze_btn = "disabled"
    /\ filter_widgets = DefaultFilters
    /\ workers = <<>>
    /\ tk_queue = <<>>

not_gui_vars ==
    <<features, mood_result, pc, request, returned, raised, extract_calls,
      classify_calls, signal, http_vars>>

\* 'Open Folder' is clicked and the dialog returns a folder
select_folder ==
    /\ pc = "mainloop"
    /\ \E folder \in Folders : current_folder' = folder
    /\ analyze_btn' = "normal"
    /\ UNCHANGED <<library, filtered_library, is_analyzing, filter_widgets,
                   workers, tk_queue, stdout, not_gui_vars>>

\* analyze_folder returns early: no folder, already analyzing, no files
NothingToStart ==
    \/ current_folder = ""
    \/ is_analyzing
    \/ find_audio_files(current_folder) = <<>>

\* 'Analyze All' is clicked; a disabled button does not call its command
analyze_folder ==
    /\ pc = "mainloop"
    /\ analyze_btn = "normal"
    /\ Len(workers) < MaxRuns
    /\ IF NothingToStart
       THEN UNCHANGED <<is_analyzing, analyze_btn, workers>>
       ELSE /\ is_analyzing' = TRUE
            /\ analyze_btn' = "disabled"
            /\ workers' = Append(workers,
                              [files |-> find_audio_files(current_folder),
                               analyzed |-> 0, at |-> "loop"])
    /\ UNCHANGED <<library, filtered_library, current_folder,
                   filter_widgets, tk_queue, stdout, not_gui_vars>>

\* the library and the printed errors after the body of the loop of
\* analyze_files_thread has run for one file
Analyzed(file, outcome) ==
    IF \E i \in 1..Len(library) : library[i].path = file
    THEN [library |-> library, stdout |-> stdout]
    ELSE IF outcome.raised = "none"
    THEN [library |-> Append(library, TrackOf(file, outcome.result)),
          stdout |-> stdout]
    ELSE [library |-> library,
          stdout |-> Append(stdout, [path |-> file,
                                     error |-> outcome.raised])]

LoopBody(w, after) ==
    /\ library' = after.library
    /\ stdout' = after.stdout
    /\ workers' = [workers EXCEPT ![w].analyzed = @ + 1]
    /\ tk_queue' = Append(tk_queue, "progress")

\* a worker thread runs one iteration of its for loop
analyze_files_thread_loop ==
    /\ pc = "mainloop"
    /\ \E w \in 1..Len(workers) :
          /\ workers[w].at = "loop"
          /\ workers[w].analyzed < Len(workers[w].files)
          /\ LoopBody(w, Analyzed(
                 workers[w].files[workers[w].analyzed + 1],
                 analyze_audio(workers[w].files[workers[w].analyzed + 1],
                               TRUE, FALSE)))
    /\ UNCHANGED <<filtered_library, current_folder, is_analyzing,
                   analyze_btn, filter_widgets, not_gui_vars>>

\* a worker thread has left its loop: self.is_analyzing = False
analyze_files_thread_clear ==
    /\ pc = "mainloop"
    /\ \E w \in 1..Len(workers) :
          /\ workers[w].at = "loop"
          /\ workers[w].analyzed = Len(workers[w].files)
          /\ workers' = [workers EXCEPT ![w].at = "after"]
    /\ is_analyzing' = FALSE
    /\ UNCHANGED <<library, filtered_library, current_folder, analyze_btn,
                   filter_widgets, tk_queue, stdout, not_gui_vars>>

\* its last statement: self.root.after(0, self.analysis_complete)
analyze_files_thread_after ==
    /\ pc = "mainloop"
    /\ \E w \in 1..Len(workers) :
          /\ workers[w].at = "after"
          /\ workers' = [workers EXCEPT ![w].at = "exited"]
    /\ tk_queue' = Append(tk_queue, "analysis_complete")
    /\ UNCHANGED <<library, filtered_library, current_folder, is_analyzing,
                   analyze_btn, filter_widgets, stdout, not_gui_vars>>

\* the main loop runs the oldest scheduled callback: the progress label
\* is updated, or analysis_complete enables the button and applies the
\* filters
tk_callback ==
    /\ pc = "mainloop"
    /\ tk_queue # <<>>
    /\ tk_queue' = Tail(tk_queue)
    /\ IF Head(tk_queue) = "analysis_complete"
       THEN /\ analyze_btn' = "normal"
            /\ filtered_library' = Filtered(library, filter_widgets)
       ELSE UNCHANGED <<analyze_btn, filtered_library>>
    /\ UNCHANGED <<library, current_folder, is_analyzing, filter_widgets,
                   workers, stdout, not_gui_vars>>

\* the user changes the filter widgets and applies them
apply_filters ==
    /\ pc = "mainloop"
    /\ \E widgets \in FilterSettings :
          /\ filter_widgets' = widgets
          /\ filtered_library' = Filtered(library, widgets)
    /\ UNCHANGED <<library, current_folder, is_analyzing, analyze_btn,
                   workers, tk_queue, stdout, not_gui_vars>>

\* 'Clear Filters' is clicked
clear_filters ==
    /\ pc = "mainloop"
    /\ filter_widgets' = DefaultFilters
    /\ filtered_library' = Filtered(library, DefaultFilters)
    /\ UNCHANGED <<library, current_folder, is_analyzing, analyze_btn,
                   workers, tk_queue, stdout, not_gui_vars>>

NextGui ==
    \/ select_folder
    \/ analyze_folder
    \/ analyze_files_thread_loop
    \/ analyze_files_thread_clear
    \/ analyze_files_thread_after
    \/ tk_callback
    \/ apply_filters
    \/ clear_filters

SpecGui == InitGui /\ [][NextGui]_vars

TypeOK ==
    /\ features \in FeatureVectors \cup KeyFeatureVectors
                       \cup TierFeatureVectors
                       \cup {TrackA, NoFeatures, extract_features(signal)}
    /\ pc \in {"loaded", "ready", "front_end", "listening", "mainloop",
              "done"}
    /\ is_analyzing \in BOOLEAN
    /\ analyze_btn \in {"normal", "disabled"}
    /\ current_folder \in Folders \cup {""}
    /\ Len(workers) <= MaxRuns
    /\ Len(filtered_library) <= Len(library)
    /\ pc # "done" => mood_result = NoResult
    /\ http_status \in {0, 200, 400, 500}
    /\ tmp_dir \subseteq tmp_created
    /\ tmp_created \subseteq 1..Len(http_request.files)
    /\ signal \in Signals \cup {NoSignal}
    /\ request.op \in {"none", "analyze_audio", "batch_analyze"}
    /\ request.paths \in PathLists
    /\ raised \in {"none", "FileNotFoundError", "ValueError", "Exception",
                   "TypeError"}
    /\ request.op # "none" =>
          Len(returned) + Len(stdout) <= Len(request.paths)

\* ------------------------------------------------------------------------
\* Properties
\* ------------------------------------------------------------------------

Done == pc = "done"

\* the inputs and outputs the properties speak about
tempo_bpm == features.tempo
energy_in == features.energy
confidence_in == GetTempoConfidence(features)
zcr_in == features.zero_crossing_rate
centroid_in == features.spectral_centroid
major_in == determine_major_minor(features.chroma)
corrected_tempo == mood_result.tempo
mood == mood_result.mood

\* which rule or band of the rule table an input falls in, first match wins
InRuleA == confidence_in < 200
InRuleB == ~InRuleA /\ zcr_in > 250
PassesDegenerate == ~InRuleA /\ ~(zcr_in > 250)
InTechnoBand ==
    /\ PassesDegenerate
    /\ 12000 <= corrected_tempo /\ corrected_tempo <= 14500
    /\ energy_in >= 500
InClubBand ==
    /\ PassesDegenerate /\ ~InTechnoBand
    /\ 10000 <= corrected_tempo /\ corrected_tempo <= 13000
    /\ energy_in >= 150
InDnBBand ==
    /\ PassesDegenerate /\ ~InTechnoBand /\ ~InClubBand
    /\ 14800 <= corrected_tempo /\ corrected_tempo <= 18000
InHighBand ==
    /\ PassesDegenerate /\ ~InTechnoBand /\ ~InClubBand /\ ~InDnBBand
    /\ (corrected_tempo > 18000 \/ energy_in > 700)
InLowBand ==
    /\ PassesDegenerate /\ ~InTechnoBand /\ ~InClubBand /\ ~InDnBBand
    /\ ~InHighBand
    /\ energy_in < 200
InFallbackBand ==
    /\ PassesDegenerate /\ ~InTechnoBand /\ ~InClubBand /\ ~InDnBBand
    /\ ~InHighBand /\ ~InLowBand

RuleALabels ==
    {"Ambient/Drone", "Atmospheric/Textural", "Noise/Experimental",
     "Harsh Noise/Experimental"}
TechnoLabels == {"Techno/Dark", "Techno/Industrial"}

\* C1: the corrected tempo is twice tempo_bpm exactly when
\* 80 <= tempo_bpm <= 145 and energy > 0.8, and tempo_bpm otherwise.
C1_HalfTempoCorrection ==
    Done =>
        corrected_tempo =
            IF 8000 <= tempo_bpm /\ tempo_bpm <= 14500 /\ energy_in > 800
            THEN 2 * tempo_bpm
            ELSE tempo_bpm

\* tempo 100, energy 0.85 is reported at 200 BPM
C1_Witness ==
    /\ Done /\ tempo_bpm = 10000 /\ energy_in = 850
    /\ corrected_tempo = 20000

\* C2: with tempo_confidence < 0.2 the label is one of rule (a), it is
\* "Ambient/Drone" when energy < 0.15 and never "Glitch/Experimental", and
\* it is the same whatever zero_crossing_rate, tempo and chroma are: the
\* same as for every other zero crossing rate, for every other chroma, and
\* as at 60 BPM (so the labels at any two tempos agree).
C2_DegeneratePriority ==
    (Done /\ confidence_in < 200) =>
        /\ mood \in RuleALabels
        /\ energy_in < 150 => mood = "Ambient/Drone"
        /\ \A z \in ZcrValues :
              detect_mood(energy_in, tempo_bpm, confidence_in, features.chroma,
                          centroid_in, z)[1] = mood
        /\ detect_mood(energy_in, 6000, confidence_in, features.chroma,
                       centroid_in, zcr_in)[1] = mood
        /\ \A ch \in ChromaValues :
              detect_mood(energy_in, tempo_bpm, confidence_in, ch,
                          centroid_in, zcr_in)[1] = mood

\* the spec's example: confidence 0.05, zero crossing rate 0.9, energy 0.05
C2_Witness ==
    /\ Done /\ confidence_in = 50 /\ zcr_in = 900 /\ energy_in = 50
    /\ mood = "Ambient/Drone"

\* C3: the energy tiers of rule (a).
C3_RuleATiers ==
    (Done /\ confidence_in < 200) =>
        mood =
            IF energy_in < 150 THEN "Ambient/Drone"
            ELSE IF energy_in < 500 THEN "Atmospheric/Textural"
            ELSE IF energy_in < 700
                 THEN (IF centroid_in < 1500 THEN "Atmospheric/Textural"
                                             ELSE "Noise/Experimental")
            ELSE "Harsh Noise/Experimental"

\* energy 0.5 with brightness exactly 0.3 is droning noise
C3_Witness ==
    /\ Done /\ confidence_in = 199 /\ energy_in = 500 /\ centroid_in = 1500
    /\ mood = "Noise/Experimental"

\* C4: with tempo_confidence >= 0.2 and zero_crossing_rate > 0.25 the label
\* is "Harsh Noise/Experimental" if energy > 0.3, else
\* "Glitch/Experimental"; at zero_crossing_rate = 0.25 it is neither.
C4_RuleB ==
    (Done /\ confidence_in >= 200) =>
        /\ zcr_in > 250 =>
              mood = IF energy_in > 300 THEN "Harsh Noise/Experimental"
                                        ELSE "Glitch/Experimental"
        /\ zcr_in = 250 =>
              mood \notin {"Harsh Noise/Experimental", "Glitch/Experimental"}

\* energy exactly 0.3 with a zero crossing rate just above 0.25
C4_Witness ==
    /\ Done /\ confidence_in = 200 /\ zcr_in = 251 /\ energy_in = 300
    /\ mood = "Glitch/Experimental"

\* C5: past the degenerate rules, 120 <= corrected_tempo <= 145 with
\* energy >= 0.50 is "Techno/Dark" when brightness < 0.4 and
\* "Techno/Industrial" otherwise, also between 120 and 130 BPM; at energy
\* 0.5 a corrected tempo above 145 gets no Techno label.
C5_TechnoBand ==
    (Done /\ PassesDegenerate) =>
        /\ (/\ 12000 <= corrected_tempo /\ corrected_tempo <= 14500
            /\ energy_in >= 500) =>
              mood = IF centroid_in < 2000 THEN "Techno/Dark"
                                           ELSE "Techno/Industrial"
        /\ (energy_in = 500 /\ corrected_tempo > 14500) =>
              mood \notin TechnoLabels

\* corrected tempo 145 with energy 0.5
C5_Witness ==
    /\ Done /\ PassesDegenerate
    /\ corrected_tempo = 14500 /\ energy_in = 500
    /\ mood \in TechnoLabels

\* C6: the Club/House band.
C6_ClubBand ==
    (Done /\ InClubBand) =>
        mood =
            IF energy_in > 700
            THEN IF 11500 <= corrected_tempo /\ corrected_tempo <= 13000
                 THEN (IF centroid_in > 2500 THEN "Techno/Industrial"
                                             ELSE "Techno/Dark")
                 ELSE "Energetic/Rave"
            ELSE IF /\ 10000 <= corrected_tempo /\ corrected_tempo <= 11500
                    /\ energy_in < 500
                 THEN "Disco/Funk"
            ELSE IF centroid_in > 2500
                 THEN (IF major_in THEN "House/Dance" ELSE "Dark House")
            ELSE IF centroid_in > 2000 THEN "Disco/Funk"
            ELSE "Club/Groovy"

\* energy above 0.7 at 115 BPM with brightness exactly 0.5
C6_Witness ==
    /\ Done /\ InClubBand
    /\ energy_in > 700 /\ corrected_tempo = 11500 /\ centroid_in = 2500
    /\ mood = "Techno/Dark"

\* C7: 148 <= corrected_tempo <= 180 not caught earlier is "Drum & Bass"
\* when energy > 0.4, "Breakbeat/Fast" when 0.25 < energy <= 0.4 and
\* "Fast/Atmospheric" when energy <= 0.25, whatever the energy.
C7_DnBBand ==
    (/\ Done /\ PassesDegenerate
     /\ 14800 <= corrected_tempo /\ corrected_tempo <= 18000) =>
        mood =
            IF energy_in > 400 THEN "Drum & Bass"
            ELSE IF energy_in > 250 THEN "Breakbeat/Fast"
            ELSE "Fast/Atmospheric"

\* a doubled 90 BPM track at very high energy is taken by this band, not
\* by the high-energy band
C7_Witness ==
    /\ Done /\ PassesDegenerate
    /\ tempo_bpm = 9000 /\ corrected_tempo = 18000 /\ energy_in > 800
    /\ mood = "Drum & Bass"

\* C8: the high-energy/hard band.
C8_HighBand ==
    (Done /\ InHighBand) =>
        mood =
            IF energy_in > 800 THEN "Hard/Aggressive"
            ELSE IF energy_in > 600 THEN "Energetic/Rave"
            ELSE "Driving Electronic"

\* above 180 BPM with energy exactly 0.6
C8_Witness ==
    /\ Done /\ InHighBand
    /\ corrected_tempo > 18000 /\ energy_in = 600
    /\ mood = "Driving Electronic"

\* C9: the low-energy band.
C9_LowBand ==
    (Done /\ InLowBand) =>
        mood =
            IF corrected_tempo < 7000
            THEN IF energy_in < 100 THEN "Ambient/Atmospheric"
                 ELSE IF ~major_in THEN "Melancholic/Sad"
                 ELSE "Downtempo/Relaxed"
            ELSE IF corrected_tempo < 10000
            THEN IF energy_in < 100 /\ centroid_in < 2000
                 THEN "Downtempo/Dark"
                 ELSE IF energy_in < 120 THEN "Ambient/Chill"
                 ELSE "Midtempo Groove"
            ELSE "Minimal/Sparse"

\* exactly 70 BPM, very low energy, dark timbre
C9_Witness ==
    /\ Done /\ InLowBand
    /\ corrected_tempo = 7000 /\ energy_in < 100 /\ centroid_in < 2000
    /\ mood = "Downtempo/Dark"

\* C10: the fallback band.
C10_FallbackBand ==
    (Done /\ InFallbackBand) =>
        mood =
            IF energy_in >= 250
            THEN (IF corrected_tempo > 10000 THEN "Upbeat/Moderate"
                                             ELSE "Moderate Groove")
            ELSE IF energy_in >= 150 THEN "Relaxed/Moderate"
            ELSE "Low Energy"

\* just under 100 BPM with energy exactly 0.25
C10_Witness ==
    /\ Done /\ InFallbackBand
    /\ corrected_tempo = 9999 /\ energy_in = 250
    /\ mood = "Moderate Groove"

\* the corrected tempo as the spec defines it
spec_corrected_tempo ==
    IF 8000 <= tempo_bpm /\ tempo_bpm <= 14500 /\ energy_in > 800
    THEN 2 * tempo_bpm
    ELSE tempo_bpm

\* C11: the reported tempo, the tempo the bands compare (the label is that
\* of a track extracted at the corrected tempo), the tempo scored and the
\* tempo tiered and printed are all the corrected tempo; for a doubled
\* track the explanation is not the one of the raw tempo.
C11_DownstreamUsesCorrectedTempo ==
    Done =>
        /\ mood_result.tempo = spec_corrected_tempo
        /\ mood = detect_mood(energy_in, spec_corrected_tempo, confidence_in,
                              features.chroma, centroid_in, zcr_in)[1]
        /\ mood_result.similarity_scores =
              calculate_similarity_scores(energy_in, spec_corrected_tempo,
                                          centroid_in)
        /\ mood_result.explanation =
              generate_explanation(energy_in, spec_corrected_tempo,
                                   centroid_in, mood_result.key)
        /\ spec_corrected_tempo # tempo_bpm =>
              mood_result.explanation #
                  generate_explanation(energy_in, tempo_bpm, centroid_in,
                                       mood_result.key)

\* a doubled track whose scores at the raw tempo would have been different
C11_Witness ==
    /\ Done /\ tempo_bpm = 8000 /\ mood_result.tempo = 16000
    /\ mood = "Drum & Bass"
    /\ mood_result.similarity_scores #
          calculate_similarity_scores(energy_in, tempo_bpm, centroid_in)

\* the labels the rule table can return
MoodVocabulary ==
    {"Ambient/Drone", "Atmospheric/Textural", "Noise/Experimental",
     "Harsh Noise/Experimental", "Glitch/Experimental",
     "Techno/Dark", "Techno/Industrial",
     "Energetic/Rave", "Disco/Funk", "House/Dance", "Dark House",
     "Club/Groovy",
     "Drum & Bass", "Breakbeat/Fast", "Fast/Atmospheric",
     "Hard/Aggressive", "Driving Electronic",
     "Ambient/Atmospheric", "Melancholic/Sad", "Downtempo/Relaxed",
     "Downtempo/Dark", "Ambient/Chill", "Midtempo Groove", "Minimal/Sparse",
     "Upbeat/Moderate", "Moderate Groove", "Relaxed/Moderate", "Low Energy"}

\* C12: every classification returns a label, and the label is one of the
\* closed vocabulary; no input runs off the end of the rule chain.
C12_TotalClosedVocabulary ==
    Done => (mood # NoMatch /\ mood \in MoodVocabulary)

\* an input that reaches the last block of the chain
C12_Witness ==
    /\ Done /\ InFallbackBand /\ energy_in < 250
    /\ mood = "Relaxed/Moderate"

\* the 0-based index of the lowest pitch class that carries the largest
\* chroma value
spec_root ==
    LET ch == features.chroma
        top == CHOOSE v \in {ch[i] : i \in 1..12} :
                   \A i \in 1..12 : ch[i] <= v
        at_top == {i \in 0..11 : ch[i + 1] = top}
    IN  CHOOSE i \in at_top : \A j \in at_top : i <= j

spec_note_names ==
    <<"C", "C#", "D", "D#", "E", "F", "F#", "G", "G#", "A", "A#", "B">>

\* C13: the key is the note of the first maximum of the chroma, followed
\* by "major" exactly when the bin 4 semitones up is strictly stronger than
\* the bin 3 semitones up; a constant chroma gives "C minor".
C13_KeyEstimation ==
    Done =>
        LET ch == features.chroma
            third_major == ch[((spec_root + 4) % 12) + 1]
            third_minor == ch[((spec_root + 3) % 12) + 1]
        IN  /\ mood_result.key =
                  spec_note_names[spec_root + 1]
                      \o (IF third_major > third_minor THEN " major"
                                                       ELSE " minor")
            /\ (\A i \in 1..12 : ch[i] = ch[1]) => mood_result.key = "C minor"

\* two equal maxima, D and G: the first one decides note and mode
C13_Witness ==
    /\ Done /\ features.chroma = TwoPeaks(2)
    /\ mood_result.key = "D minor"

\* whether the weighted distance to a reference mood is 3.0 or more
spec_distance_at_least_3(name) ==
    LET ref == reference_moods[name]
        e2 == 2 * 10 * Abs(energy_in - ref.energy)
        t3 == 3 * Abs(mood_result.tempo - ref.tempo)
        b1 == 10 * Abs(Min(centroid_in \div 5, 1000) - ref.brightness)
    IN  \/ t3 >= 30000
        \/ e2 * e2 + t3 * t3 + b1 * b1 >= 30000 * 30000

\* C14: similarity_scores has exactly the six reference moods as keys,
\* every value lies in [0, 1], and a value is 0 whenever the weighted
\* distance is 3 or more.
C14_SimilarityShape ==
    Done =>
        /\ DOMAIN mood_result.similarity_scores =
              {"House", "Techno", "Disco", "Ambient", "DnB", "Downtempo"}
        /\ \A name \in DOMAIN mood_result.similarity_scores :
              /\ mood_result.similarity_scores[name] \in 0..100
              /\ spec_distance_at_least_3(name) =>
                    mood_result.similarity_scores[name] = 0

\* 150 BPM at energy 1.0: no single term reaches 3.0 against Ambient, the
\* distance does
C14_Witness ==
    /\ Done /\ energy_in = 1000 /\ mood_result.tempo = 15000
    /\ 3 * Abs(mood_result.tempo - reference_moods["Ambient"].tempo) < 30000
    /\ spec_distance_at_least_3("Ambient")
    /\ mood_result.similarity_scores["Ambient"] = 0

\* C15: at a reference mood's own energy, tempo and centroid (House:
\* 0.15, 125 BPM, 3000 Hz) the weighted distance is 0 and the similarity to
\* that mood is 1.0, and no input scores higher than 1.0.
C15_ReferencePoint ==
    Done =>
        /\ (/\ energy_in = 150 /\ mood_result.tempo = 12500
            /\ centroid_in = 3000) =>
              mood_result.similarity_scores["House"] = 100
        /\ \A name \in DOMAIN reference_moods :
              /\ (/\ energy_in = reference_moods[name].energy
                  /\ mood_result.tempo = reference_moods[name].tempo
                  /\ centroid_in = 5 * reference_moods[name].brightness) =>
                    /\ WeightedDistance(energy_in, mood_result.tempo,
                                        centroid_in \div 5,
                                        reference_moods[name]) = 0
                    /\ mood_result.similarity_scores[name] = 100
              /\ mood_result.similarity_scores[name] <= 100

\* the House reference point
C15_Witness ==
    /\ Done /\ energy_in = 150 /\ mood_result.tempo = 12500
    /\ centroid_in = 3000
    /\ mood_result.similarity_scores["House"] = 100
    /\ mood_result.similarity_scores["Techno"] < 100

\* the tiers of the explanation, lower bounds inclusive
spec_energy_tier ==
    IF energy_in < 100 THEN "Very low"
    ELSE IF energy_in < 200 THEN "Low"
    ELSE IF energy_in < 350 THEN "Moderate"
    ELSE IF energy_in < 500 THEN "High"
    ELSE "Very high"

spec_tempo_tier ==
    IF spec_corrected_tempo < 8000 THEN "slow"
    ELSE IF spec_corrected_tempo < 11000 THEN "moderate"
    ELSE IF spec_corrected_tempo < 13000 THEN "dance"
    ELSE IF spec_corrected_tempo < 15000 THEN "fast"
    ELSE "very fast"

spec_brightness_tier ==
    IF centroid_in < 1500 THEN "dark/mellow"
    ELSE IF centroid_in < 3000 THEN "balanced"
    ELSE "bright/sharp"

\* C16: the explanation names the energy tier, the tier of the corrected
\* tempo and the brightness tier, lower bounds inclusive and upper bounds
\* exclusive, followed by the key of the key estimator.
C16_ExplanationTiers ==
    Done =>
        mood_result.explanation =
            spec_energy_tier \o " energy (" \o Format3f(energy_in) \o "), "
            \o spec_tempo_tier \o " tempo ("
            \o Format1f(spec_corrected_tempo) \o " BPM), "
            \o spec_brightness_tier \o " timbre, key of "
            \o determine_key(features.chroma)

\* every tier at its lower bound
C16_Witness ==
    /\ Done /\ energy_in = 350 /\ tempo_bpm = 15000 /\ centroid_in = 3000
    /\ features.chroma = [i \in 1..12 |-> 0]
    /\ mood_result.explanation =
          "High energy (0.350), very fast tempo (150.0 BPM), bright/sharp timbre, key of C minor"

\* ------------------------------------------------------------------------
\* Properties of the analyzer (checked under SpecAnalyzer)
\* ------------------------------------------------------------------------

requested_path == request.paths[1]

AnalyzeAudioDone == pc = "done" /\ request.op = "analyze_audio"

BatchAnalyzeDone == pc = "done" /\ request.op = "batch_analyze"

\* the extensions the specification lists, compared without regard to case
spec_supported_extension(path) ==
    Lower(path.suffix) \in {".mp3", ".wav", ".flac", ".ogg", ".m4a", ".aac"}

\* no samples can be decoded from the file
spec_undecodable(path) == path.content \in {"garbage", "empty"}

spec_fails(path) ==
    analyze_audio(path, request.detailed, request.similarity_search).raised
        # "none"

RECURSIVE spec_successful_results(_)
spec_successful_results(paths) ==
    IF paths = <<>> THEN <<>>
    ELSE LET rest == spec_successful_results(Tail(paths))
         IN  IF spec_fails(Head(paths)) THEN rest
             ELSE <<analyze_audio(Head(paths), request.detailed,
                                  request.similarity_search).result>>
                  \o rest

RECURSIVE spec_failed_paths(_)
spec_failed_paths(paths) ==
    IF paths = <<>> THEN <<>>
    ELSE LET rest == spec_failed_paths(Tail(paths))
         IN  IF spec_fails(Head(paths)) THEN <<Head(paths)>> \o rest
             ELSE rest

\* C19: batch_analyze raises nothing whatever the list of paths; every
\* path is either in the results or reported, each failing file is
\* reported once in input order, and the returned results are those of
\* the files whose analysis succeeds, in input order.
C19_BatchIsolationAndOrder ==
    BatchAnalyzeDone =>
        /\ raised = "none"
        /\ Len(returned) + Len(stdout) = Len(request.paths)
        /\ returned = spec_successful_results(request.paths)
        /\ [i \in 1..Len(stdout) |-> stdout[i].path]
              = spec_failed_paths(request.paths)

\* a file that fails during feature extraction sits between two files
\* that are analysed
C19_Witness ==
    /\ BatchAnalyzeDone
    /\ Len(request.paths) = 3
    /\ request.paths[1].content = "audio"
    /\ request.paths[2].content = "truncated"
    /\ request.paths[3].content = "audio"
    /\ request.paths[1].track # request.paths[3].track
    /\ Len(returned) = 2
    /\ returned[1].tempo # returned[2].tempo
    /\ Len(stdout) = 1
    /\ stdout[1].path = request.paths[2]

\* ------------------------------------------------------------------------
\* Liveness of the leaves of the decision chain (checked under Spec)
\* ------------------------------------------------------------------------

\* some feature vector of the grid is classified as the label
Live(label) ==
    \E f \in FeatureVectors :
        detect_mood(f.energy, f.tempo, GetTempoConfidence(f), f.chroma,
                    f.spectral_centroid, f.zero_crossing_rate)[1] = label

\* C20: every label that appears as an outcome of the decision chain,
\* the final fallback "Low Energy" included, is returned for at least one
\* feature vector.  This is the statement of the specification; the code
\* does not satisfy it, because every path through the block for
\* energy < 0.2 returns, so the fallback is entered with energy >= 0.2
\* only and its last branch is never taken.
C20_EveryLeafLive ==
    Done => \A label \in MoodVocabulary : Live(label)

\* ------------------------------------------------------------------------
\* Consequences of the half-tempo correction (checked under Spec)
\* ------------------------------------------------------------------------

\* the labels only the Techno and Club/House blocks return
ClubOnlyLabels ==
    {"Techno/Dark", "Techno/Industrial", "Disco/Funk", "House/Dance",
     "Dark House", "Club/Groovy"}

\* C21: no result has energy above 0.8 together with a reported tempo in
\* [80, 145]; hence the Techno and Club/House bands, and the labels only
\* they return, are reached with energy at most 0.8 only, and every
\* doubled track reports a tempo in [160, 290].
C21_ExclusionZone ==
    Done =>
        /\ ~(/\ energy_in > 800
             /\ 8000 <= corrected_tempo /\ corrected_tempo <= 14500)
        /\ (InTechnoBand \/ InClubBand) => energy_in <= 800
        /\ mood \in ClubOnlyLabels => energy_in <= 800
        /\ corrected_tempo # tempo_bpm =>
              16000 <= corrected_tempo /\ corrected_tempo <= 29000

\* a track at the upper edge of the doubled range, past rules (a) and (b)
C21_Witness ==
    /\ Done /\ PassesDegenerate
    /\ energy_in > 800 /\ tempo_bpm = 14500
    /\ corrected_tempo = 29000
    /\ mood \notin ClubOnlyLabels

\* ------------------------------------------------------------------------
\* Mood and key (checked under SpecKey)
\* ------------------------------------------------------------------------

MajorKeys == {notes[i] \o " major" : i \in 1..12}

MinorKeys == {notes[i] \o " minor" : i \in 1..12}

\* C22: "House/Dance" and "Downtempo/Relaxed" come with a key ending in
\* "major", "Dark House" and "Melancholic/Sad" with a key ending in
\* "minor"; the key is major exactly when the decision tree took the
\* chroma for major, and its note is the root that comparison used.
C22_MoodAndKeyAgree ==
    Done =>
        /\ mood \in {"House/Dance", "Downtempo/Relaxed"} =>
              mood_result.key \in MajorKeys
        /\ mood \in {"Dark House", "Melancholic/Sad"} =>
              mood_result.key \in MinorKeys
        /\ mood_result.key \in MajorKeys \cup MinorKeys
        /\ mood_result.key \in MajorKeys <=> major_in
        /\ mood_result.key \in
              {notes[argmax(features.chroma) + 1] \o " major",
               notes[argmax(features.chroma) + 1] \o " minor"}

\* equal thirds: the decision tree and the key both read minor
C22_Witness ==
    /\ Done
    /\ features.chroma = ChromaOf(10, 4, 4)
    /\ mood = "Dark House"
    /\ mood_result.key = "A# minor"

\* ------------------------------------------------------------------------
\* The tempo fallback (checked under SpecTempo)
\* ------------------------------------------------------------------------

\* extract_tempo falls back: the onset envelope is flat, or librosa raises
spec_falls_back == signal.raises \/ signal.variance < 10

\* C23: whenever extract_tempo falls back it returns tempo 60.0 with a
\* confidence below 0.2, and the classification that follows returns a
\* rule (a) label with reported tempo 60.0.
C23_FallbackIsNoBeat ==
    spec_falls_back =>
        /\ pc \in {"ready", "done"} =>
              /\ features.tempo = 6000
              /\ features.tempo_confidence < 200
        /\ Done =>
              /\ mood \in RuleALabels
              /\ corrected_tempo = 6000

\* a flat onset envelope under a track that would otherwise be doubled
C23_Witness ==
    /\ Done
    /\ ~signal.raises /\ signal.variance = 9
    /\ signal.tempo = 10000 /\ signal.energy = 850
    /\ corrected_tempo = 6000
    /\ mood = "Harsh Noise/Experimental"

\* ------------------------------------------------------------------------
\* Temporary files of the HTTP front end (checked under SpecHttp)
\* ------------------------------------------------------------------------

HttpDone == pc = "done" /\ http_request.op # "none"

\* C24: when a request to /analyze or /batch-analyze has been answered,
\* no temporary file it created is left on disk.  This is the statement of
\* the specification; the code does not satisfy it when reading an upload
\* or writing it to its temporary file fails.
C24_TempFilesDeleted ==
    HttpDone => tmp_dir = {}

\* what the code does guarantee: a temporary file is left only by the
\* upload whose transfer failed
TempFilesLeft ==
    HttpDone =>
        /\ \A i \in tmp_dir : http_request.files[i].transfer # "ok"
        /\ Cardinality(tmp_dir) <= 1
        /\ http_status = 200 => tmp_dir = {}

\* ------------------------------------------------------------------------
\* The library GUI (checked under SpecGui)
\* ------------------------------------------------------------------------

\* the worker threads that have not run their last statement
LiveWorkers == {w \in 1..Len(workers) : workers[w].at # "exited"}

\* the worker threads that have not left their for loop
LoopingWorkers == {w \in 1..Len(workers) : workers[w].at = "loop"}

\* C25: at most one analysis thread is running at any time, and
\* is_analyzing is true exactly while a worker thread is in the loop that
\* appends to the library.  This is the statement of the specification;
\* the code does not satisfy its first part, because a worker clears
\* is_analyzing before its last statement, and a click between the two
\* starts a second thread.
C25_SingleAnalysisRun ==
    /\ Cardinality(LiveWorkers) <= 1
    /\ is_analyzing <=> LoopingWorkers # {}

\* what the code does guarantee: one worker at most is in its loop, the
\* flag is set exactly then, and a click while it is set starts no thread
OneWorkerInLoop ==
    /\ Cardinality(LoopingWorkers) <= 1
    /\ is_analyzing <=> LoopingWorkers # {}

NoStartWhileAnalyzing ==
    [][is_analyzing => Len(workers') = Len(workers)]_vars

\* C26: when clear_filters has run, filtered_library equals library:
\* every analysed track is displayed.  This is the statement of the
\* specification; the code does not satisfy it, because clear_filters
\* resets the tempo range to 0..200 and applies it, which hides every
\* track with a reported tempo above 200 BPM.
C26_ClearShowsWholeLibrary ==
    [][clear_filters => filtered_library' = library']_vars

\* what the code does guarantee: the tracks shown after clear_filters are
\* those with tempo in 0..200 and energy in 0.0..1.0, in library order
ClearShowsDefaultRange ==
    [][clear_filters =>
          /\ Len(filtered_library') <= Len(library')
          /\ \A i \in 1..Len(library') :
                (library'[i].tempo <= 20000 /\ library'[i].energy <= 1000)
                    <=> \E j \in 1..Len(filtered_library') :
                           filtered_library'[j] = library'[i]]_vars

====
